---- MODULE Spec2Model ----
(***************************************************************************)
(* Standup summary generation pipeline of the AI Scrum Master backend.     *)
(*                                                                         *)
(* Text is modelled as a sequence of tokens.  A section marker phrase      *)
(* ("PLANNED TODAY", ...), the header prefix "##", a fence marker, a       *)
(* bullet character, a word, a blank and a line break are one token each,  *)
(* so str.find(marker) is the search for the marker token wherever it      *)
(* stands: in a header line or in the prose of a bullet.  Indices are      *)
(* 0-based as in Python, -1 is "not found".                                *)
(*                                                                         *)
(* JSON values that the code only passes through are atoms (strings such   *)
(* as "[item]"), with JsonType giving the Python type that json.loads      *)
(* produces for them.  Sentiment scores are in tenths (8 is 0.8).          *)
(***************************************************************************)
EXTENDS Integers, Sequences, FiniteSets, TLC

VARIABLES
    backend,            \* the condition of the LLM backend the process talks to
    env,                \* the process environment _detect_provider reads
    standup_notes,      \* table standup_notes: a set of rows
    standup_summaries,  \* table standup_summaries: a set of rows
    next_id,            \* the id the summary table gives its next row
    run,                \* per request: its position and its local values
    p_pc,        \* parser harness: "ready" | "returned" | "raised"
    p_input,     \* parser harness: the llm_response handed to the parser
    p_out,       \* parser harness: the value _parse_llm_response returned
    sprints,        \* table sprints: a set of rows
    sprint_call,    \* the last SprintService call and how it ended
    service_call,   \* the StandupService call of POST /generate and how it ended
    request         \* one BaseIntegration._make_request call: its position and history

pvars == <<p_pc, p_input, p_out>>
rvars == <<backend, env, standup_notes, standup_summaries, next_id, run>>
svars == <<sprints, sprint_call, service_call, request>>
vars == <<backend, env, standup_notes, standup_summaries, next_id, run, p_pc, p_input, p_out,
          sprints, sprint_call, service_call, request>>

\* the values of the other components' variables before any call is made
NoSprintCall ==
    [op |-> "none", sprint_id |-> 0, status |-> "none", outcome |-> "none",
     error |-> "none"]
NoServiceCall ==
    [pc |-> "idle", team_id |-> 0, sprint_id |-> 0, date |-> 0, outcome |-> "none",
     error |-> "none", rolled_back |-> FALSE, http |-> 0]
NoRequest ==
    [pc |-> "idle", retry_attempts |-> 0, attempt |-> 0, sent |-> <<>>,
     outcome |-> "none", error |-> "none"]
ServicesIdle ==
    /\ sprints = {}
    /\ sprint_call = NoSprintCall
    /\ service_call = NoServiceCall
    /\ request = NoRequest

----------------------------------------------------------------------------
\* Bounds of the model

\* most lines in a narrative handed to the parser harness
MaxLines == 3

\* requests to the generate endpoint that may be in flight together
MaxRuns == 2

----------------------------------------------------------------------------
\* Tokens

NL == "NL"
SP == "SP"
HeaderPrefix == "##"
FenceJson == "FENCE_JSON"
Fence == "FENCE"
\* str.strip() and the JSON grammar treat these as whitespace
Whitespace == {NL, SP}
\* the three characters _parse_bullet_list accepts at the start of a line
BulletMarkers == {"-", "*", "U+2022"}
\* a token cut by one character (content[a:-1] ending inside a token)
Trunc == "TRUNC"
\* tokens that are one character long
OneCharTokens == {NL, SP, "-", "*", "U+2022", "{", "}", "5"}

----------------------------------------------------------------------------
\* Python string primitives over token sequences

MinOf(S) == CHOOSE x \in S : \A y \in S : x <= y

\* whether the text starting at token tok starts with marker
\* (the JSON fence opener starts with the three fence characters)
Matches(tok, marker) ==
    \/ tok = marker
    \/ marker = Fence /\ tok = FenceJson

\* str.find(marker, start)
Find(text, marker, start) ==
    LET hits == {i \in start..(Len(text) - 1) : Matches(text[i + 1], marker)}
    IN  IF hits = {} THEN -1 ELSE MinOf(hits)

\* text[a:b] for 0 <= a and 0 <= b <= len(text)
Slice(text, a, b) == SubSeq(text, a + 1, b)

\* text[a:]
SliceFrom(text, a) == SubSeq(text, a + 1, Len(text))

\* text[:-1]: all but the last character
DropLastChar(text) ==
    IF text = <<>> THEN <<>>
    ELSE IF text[Len(text)] \in OneCharTokens
         THEN SubSeq(text, 1, Len(text) - 1)
         ELSE SubSeq(text, 1, Len(text) - 1) \o <<Trunc>>

RECURSIVE LStrip(_)
LStrip(text) ==
    IF text # <<>> /\ text[1] \in Whitespace THEN LStrip(Tail(text)) ELSE text

RECURSIVE RStrip(_)
RStrip(text) ==
    IF text # <<>> /\ text[Len(text)] \in Whitespace
    THEN RStrip(SubSeq(text, 1, Len(text) - 1))
    ELSE text

\* str.strip()
Strip(text) == RStrip(LStrip(text))

\* str.split on the line break
RECURSIVE SplitLines(_)
SplitLines(text) ==
    LET i == Find(text, NL, 0)
    IN  IF i = -1 THEN <<text>>
        ELSE <<Slice(text, 0, i)>> \o SplitLines(SliceFrom(text, i + 1))

\* joining lines with line breaks
RECURSIVE JoinLines(_)
JoinLines(lines) ==
    IF lines = <<>> THEN <<>>
    ELSE IF Len(lines) = 1 THEN lines[1]
    ELSE lines[1] \o <<NL>> \o JoinLines(Tail(lines))

----------------------------------------------------------------------------
\* StandupAgent._extract_section and _parse_bullet_list

_extract_section(text, start_marker, end_marker) ==
    LET found == Find(text, start_marker, 0)
        start_idx == found + 1
        end_idx == Find(text, end_marker, start_idx)
    IN  IF found = -1 THEN <<>>
        ELSE IF end_idx = -1 THEN Strip(SliceFrom(text, start_idx))
        ELSE Strip(Slice(text, start_idx, end_idx))

\* whether line.strip() starts with one of the three bullet characters
\* a variant that knows the dash only
IsBulletLine_DashOnly(line) ==
    LET l == Strip(line) IN l # <<>> /\ l[1] = "-"

IsBulletLine(line) ==
    LET l == Strip(line) IN l # <<>> /\ l[1] \in BulletMarkers

\* line[1:].strip() of the stripped line
BulletText(line) == Strip(Tail(Strip(line)))

RECURSIVE BulletsOf(_)
BulletsOf(lines) ==
    IF lines = <<>> THEN <<>>
    ELSE LET rest == BulletsOf(Tail(lines))
         IN  IF IsBulletLine(lines[1]) /\ BulletText(lines[1]) # <<>>
             THEN <<BulletText(lines[1])>> \o rest
             ELSE rest

\* mutant: every non-empty line counts as a bullet (the marker test is lost)
RECURSIVE LinesOf(_)
LinesOf(lines) ==
    IF lines = <<>> THEN <<>>
    ELSE IF Strip(lines[1]) # <<>> THEN <<Strip(lines[1])>> \o LinesOf(Tail(lines))
    ELSE LinesOf(Tail(lines))

_parse_bullet_list_every_line(text) ==
    IF text = <<>> THEN <<>> ELSE LinesOf(SplitLines(text))

_parse_bullet_list(text) ==
    IF text = <<>> THEN <<>> ELSE BulletsOf(SplitLines(text))

----------------------------------------------------------------------------
\* JSON as json.loads sees it

\* the four keys the prompt asks for
StructuredKeys == {"action_items", "risk_indicators", "sentiment", "absent_members"}

\* One token per object member, written key=value.  The value atoms:
\*   "[item]", "[risk]", "[bob]"  non-empty lists     "oops" a string
\*   "5" a number    "null" JSON null    the sentiment labels are strings
MemberTokens ==
    {"ai=[item]", "ai=oops", "ri=[risk]", "ri=5",
     "se=positive", "se=POSITIVE", "se=negative", "se=meh", "se=5",
     "se=Positive", "se=neutral", "se=mixed", "se=null",
     "am=[bob]", "am=null", "extra=oops"}

MemberKey(tok) ==
    CASE tok \in {"ai=[item]", "ai=oops"} -> "action_items"
      [] tok \in {"ri=[risk]", "ri=5"} -> "risk_indicators"
      [] tok \in {"se=positive", "se=POSITIVE", "se=negative", "se=meh", "se=5",
                  "se=Positive", "se=neutral", "se=mixed", "se=null"}
            -> "sentiment"
      [] tok \in {"am=[bob]", "am=null"} -> "absent_members"
      [] OTHER -> "extra"

MemberVal(tok) ==
    CASE tok = "ai=[item]" -> "[item]"
      [] tok = "ri=[risk]" -> "[risk]"
      [] tok = "am=[bob]" -> "[bob]"
      [] tok \in {"ri=5", "se=5"} -> "5"
      [] tok \in {"am=null", "se=null"} -> "null"
      [] tok = "se=Positive" -> "Positive"
      [] tok = "se=neutral" -> "neutral"
      [] tok = "se=mixed" -> "mixed"
      [] tok = "se=positive" -> "positive"
      [] tok = "se=POSITIVE" -> "POSITIVE"
      [] tok = "se=negative" -> "negative"
      [] tok = "se=meh" -> "meh"
      [] OTHER -> "oops"

\* the Python type json.loads gives a value atom
JsonType(atom) ==
    CASE atom \in {"[]", "[item]", "[risk]", "[bob]"} -> "list"
      [] atom = "5" -> "int"
      [] atom = "null" -> "NoneType"
      [] OTHER -> "str"

RECURSIVE DropWhitespace(_)
DropWhitespace(text) ==
    IF text = <<>> THEN <<>>
    ELSE IF text[1] \in Whitespace THEN DropWhitespace(Tail(text))
    ELSE <<text[1]>> \o DropWhitespace(Tail(text))

\* the members of an object, a later member replacing an earlier one of its key
RECURSIVE MembersOf(_)
MembersOf(toks) ==
    IF toks = <<>> THEN [k \in {} |-> "null"]
    ELSE LET before == MembersOf(SubSeq(toks, 1, Len(toks) - 1))
             last == toks[Len(toks)]
         IN  [k \in DOMAIN before \cup {MemberKey(last)} |->
                 IF k = MemberKey(last) THEN MemberVal(last) ELSE before[k]]

\* json.loads(json_str): ok is FALSE where it raises JSONDecodeError, else type
\* is the Python type of the decoded value and members the decoded dict
json_loads(json_str) ==
    LET toks == DropWhitespace(json_str)
        n == Len(toks)
        none == [k \in {} |-> "null"]
    IN  IF n >= 2 /\ toks[1] = "{" /\ toks[n] = "}"
           /\ \A i \in 2..(n - 1) : toks[i] \in MemberTokens
        THEN [ok |-> TRUE, type |-> "dict", members |-> MembersOf(SubSeq(toks, 2, n - 1))]
        ELSE IF toks = <<"[]">>
        THEN [ok |-> TRUE, type |-> "list", members |-> none]
        ELSE IF toks = <<"5">>
        THEN [ok |-> TRUE, type |-> "int", members |-> none]
        ELSE IF toks = <<"null">>
        THEN [ok |-> TRUE, type |-> "NoneType", members |-> none]
        ELSE [ok |-> FALSE, type |-> "JSONDecodeError", members |-> none]

----------------------------------------------------------------------------
\* StandupAgent._sentiment_to_score and _parse_llm_response

\* str.lower() on the sentiment labels
Lower(s) ==
    CASE s \in {"POSITIVE", "Positive"} -> "positive"
      [] OTHER -> s

sentiment_map ==
    [positive |-> 8, neutral |-> 5, negative |-> 2, mixed |-> 5]

\* _sentiment_to_score: raises AttributeError where sentiment has no lower()
_sentiment_to_score(sentiment) ==
    IF JsonType(sentiment) # "str"
    THEN [raised |-> TRUE, score |-> 0]
    ELSE [raised |-> FALSE,
          score |-> IF Lower(sentiment) \in DOMAIN sentiment_map
                    THEN sentiment_map[Lower(sentiment)] ELSE 5]

\* dict.get(key, default)
DictGet(d, key, default) == IF key \in DOMAIN d THEN d[key] ELSE default

\* the structured_data the except branch substitutes
DefaultStructuredData ==
    [action_items |-> "[]", risk_indicators |-> "[]",
     sentiment |-> "neutral", absent_members |-> "[]"]

NoParsedData ==
    [summary_text |-> <<>>, completed_yesterday |-> <<>>, planned_today |-> <<>>,
     blockers |-> <<>>, action_items |-> "[]", risk_indicators |-> "[]",
     sentiment_score |-> 0, absent_members |-> "[]"]

\* a variant in which the candidate runs to the end of the completion
JsonStrOf_ToEnd(content) ==
    LET json_start == Find(content, FenceJson, 0)
    IN  IF json_start = -1 THEN <<"{", "}">>
        ELSE Strip(SliceFrom(content, json_start + 1))

\* the fence split of lines 240-250: the narrative and the JSON candidate
SummaryTextOf(content) ==
    LET json_start == Find(content, FenceJson, 0)
    IN  IF json_start # -1 THEN Strip(Slice(content, 0, json_start)) ELSE content

JsonStrOf(content) ==
    LET json_start == Find(content, FenceJson, 0)
        json_end == Find(content, Fence, json_start + 1)
    IN  IF json_start = -1 THEN <<"{", "}">>
        ELSE IF json_end = -1
        \* content[json_start + 7:-1]
        THEN Strip(DropLastChar(SliceFrom(content, json_start + 1)))
        ELSE Strip(Slice(content, json_start + 1, json_end))

_parse_llm_response(llm_response) ==
    LET content == DictGet(llm_response, "content", <<>>)
        summary_text == SummaryTextOf(content)
        decoded == json_loads(JsonStrOf(content))
        structured_data ==
            IF decoded.ok THEN decoded.members ELSE DefaultStructuredData
        completed_yesterday ==
            _extract_section(summary_text, "COMPLETED YESTERDAY", "PLANNED TODAY")
        planned_today == _extract_section(summary_text, "PLANNED TODAY", "BLOCKERS")
        blockers == _extract_section(summary_text, "BLOCKERS", "NOTES")
        score == _sentiment_to_score(DictGet(structured_data, "sentiment", "neutral"))
    IN  IF decoded.ok /\ decoded.type # "dict"
        \* structured_data.get on a value that is no dict
        THEN [raised |-> TRUE, error |-> "AttributeError", value |-> NoParsedData]
        ELSE IF score.raised
        THEN [raised |-> TRUE, error |-> "AttributeError", value |-> NoParsedData]
        ELSE [raised |-> FALSE, error |-> "",
              value |->
                [summary_text |-> summary_text,
                 completed_yesterday |-> _parse_bullet_list(completed_yesterday),
                 planned_today |-> _parse_bullet_list(planned_today),
                 blockers |-> _parse_bullet_list(blockers),
                 action_items |-> DictGet(structured_data, "action_items", "[]"),
                 risk_indicators |-> DictGet(structured_data, "risk_indicators", "[]"),
                 sentiment_score |-> score.score,
                 absent_members |-> DictGet(structured_data, "absent_members", "[]")]]

----------------------------------------------------------------------------
\* Completions handed to the parser harness

Markers == {"COMPLETED YESTERDAY", "PLANNED TODAY", "BLOCKERS", "NOTES"}

HeaderLine(marker) == <<HeaderPrefix, SP, marker>>

\* the lines a narrative is made of: the four headers, bullets with each of the
\* three markers and with blanks around them, a bullet whose prose names a
\* section, and prose lines
NarrativeLines ==
    {HeaderLine(m) : m \in Markers}
    \cup {<<"-", SP, "w1">>, <<SP, "*", "w2", SP>>, <<"U+2022", "w2">>,
          <<"-", "w1", "PLANNED TODAY", "w2">>, <<"w1", "NOTES", "w2">>}

RECURSIVE LineSeqs(_)
LineSeqs(n) ==
    IF n = 0 THEN {<<>>}
    ELSE LET shorter == LineSeqs(n - 1)
         IN  shorter \cup {Append(ls, l) : ls \in shorter, l \in NarrativeLines}

Narratives == {JoinLines(ls) : ls \in LineSeqs(MaxLines)}

\* a narrative with all four sections, as the prompt asks for it
WellFormedNarrative ==
    JoinLines(<<HeaderLine("COMPLETED YESTERDAY"), <<"-", SP, "w1">>,
                HeaderLine("PLANNED TODAY"), <<"*", SP, "w2">>,
                HeaderLine("BLOCKERS"), <<"-", SP, "w1", SP, "w2">>,
                HeaderLine("NOTES"), <<"w1">>>>)

\* prose without headers, bullets or fence; it names a section in passing
ProseNarrative == JoinLines(<<<<"w1", SP, "BLOCKERS", SP, "w2">>, <<"w2">>>>)

CoreNarratives == {<<>>, WellFormedNarrative, ProseNarrative}

\* JSON objects: each of the four keys absent, valid or of another type
JsonObjects ==
    {<<"{">> \o a \o r \o s \o m \o <<"}">> :
        a \in {<<>>, <<"ai=[item]">>, <<"ai=oops">>},
        r \in {<<>>, <<"ri=[risk]">>, <<"ri=5">>},
        s \in {<<>>, <<"se=positive">>, <<"se=POSITIVE">>, <<"se=negative">>,
               <<"se=meh">>, <<"se=5">>, <<"se=Positive">>, <<"se=neutral">>,
               <<"se=mixed">>, <<"se=null">>},
        m \in {<<>>, <<"am=[bob]">>, <<"am=null">>}}

FullObject == <<"{", "ai=[item]", "ri=[risk]", "se=positive", "am=[bob]", "}">>

\* what may stand in the fence: objects, other JSON values, broken JSON
JsonDocs ==
    JsonObjects
    \cup {<<"[]">>, <<"5">>, <<"null">>, <<>>, <<"{", "ai=[item]">>, <<"w1">>,
          <<"{", "extra=oops", "}">>}

CoreJsonDocs == {FullObject, <<"{", "ai=[item]">>, <<"[]">>}

ClosedFence(doc) == <<FenceJson, NL>> \o doc \o <<NL, Fence>>
ClosedFenceThenProse(doc) == ClosedFence(doc) \o <<NL, "w1">>
UnclosedFence(doc) == <<FenceJson, NL>> \o doc
UnclosedFenceNewline(doc) == <<FenceJson, NL>> \o doc \o <<NL>>

CoreFences ==
    {<<>>}
    \cup {ClosedFence(d) : d \in CoreJsonDocs}
    \cup {UnclosedFence(FullObject), UnclosedFenceNewline(FullObject),
          ClosedFenceThenProse(FullObject)}

WithFence(narrative, fence) ==
    IF fence = <<>> THEN narrative
    ELSE IF narrative = <<>> THEN fence
    ELSE narrative \o <<NL>> \o fence

\* every narrative with the core fences, and every JSON document after the
\* core narratives
\* completions with a second fence: a second JSON fence after the first, and
\* a second opener where the closing fence should be
DoubleFences ==
    {ClosedFence(FullObject) \o <<NL>> \o ClosedFence(<<"{", "ai=oops", "}">>),
     <<FenceJson, NL>> \o FullObject \o <<NL, FenceJson, NL, "{", "}", NL, Fence>>}

Contents ==
    {WithFence(n, f) : n \in Narratives, f \in CoreFences}
    \cup {WithFence(n, ClosedFence(d)) : n \in CoreNarratives, d \in JsonDocs}
    \cup {WithFence(n, f) : n \in CoreNarratives, f \in DoubleFences}

\* the llm_response dicts: with the "content" key, and the hosted-API shape
\* that carries the text under "response" only
ParserInputs ==
    {[content |-> c] : c \in Contents}
    \cup {[response |-> c] : c \in {WellFormedNarrative}}

----------------------------------------------------------------------------
\* LLMProvider (services/llm_provider.py)

\* api_key is the shape of settings.openai_api_key: "gsk_", "sk-openai",
\* "ollama" (the key names ollama) or "other"
_detect_provider(e) ==
    IF e.USE_OLLAMA = "true" THEN "ollama"
    ELSE IF e.api_key = "gsk_" THEN "groq"
    ELSE IF e.api_key = "sk-openai" THEN "openai"
    ELSE IF e.api_key = "ollama" THEN "ollama"
    ELSE "openai"

Environments ==
    {[USE_OLLAMA |-> "true", api_key |-> "other"],
     [USE_OLLAMA |-> "", api_key |-> "gsk_"]}

NoResponse == [provider |-> "none"]
NoReply == [kind |-> "none", text |-> <<>>, has_usage |-> FALSE, tokens |-> 0]

\* What the backend does with one request: it answers with generated text,
\* with or without token usage, or the request fails.
BackendReply(kind, text, has_usage, tokens) ==
    [kind |-> kind, text |-> text, has_usage |-> has_usage, tokens |-> tokens]

\* a fence holding a JSON array instead of an object
ArrayFenceCompletion == WithFence(WellFormedNarrative, ClosedFence(<<"[]">>))

WellFormedCompletion == WithFence(WellFormedNarrative, ClosedFence(FullObject))

BackendReplies ==
    {BackendReply("ok", WellFormedCompletion, TRUE, 42),
     BackendReply("ok", ProseNarrative, TRUE, 7),
     BackendReply("ok", ProseNarrative, FALSE, 0),
     BackendReply("ok", ArrayFenceCompletion, TRUE, 9),
     BackendReply("unreachable", <<>>, FALSE, 0),
     BackendReply("http_error", <<>>, FALSE, 0),
     BackendReply("timeout", <<>>, FALSE, 0)}

\* The condition of the backend: it serves requests ("up": it answers with a
\* completion or with an error status), nothing listens at its address
\* ("down"), or it accepts the connection and never answers ("silent").
Backends == {"up", "down", "silent"}

\* the client waits forever for a backend that never answers
RepliesOf_NoTimeout(b) ==
    {reply \in BackendReplies :
        \/ b = "up" /\ reply.kind \in {"ok", "http_error"}
        \/ b = "down" /\ reply.kind = "unreachable"}

\* What one call of the HTTP client comes back with.  The client of the local
\* server is built with timeout=30.0 and the hosted client has a request
\* timeout of its own, so a backend that never answers ends the call with a
\* timeout error.
RepliesOf(b) ==
    {reply \in BackendReplies :
        \/ b = "up" /\ reply.kind \in {"ok", "http_error"}
        \/ b = "down" /\ reply.kind = "unreachable"
        \/ b = "silent" /\ reply.kind = "timeout"}

\* str(e) of the exception the hosted client raises
HostedError(reply) ==
    CASE reply.kind = "unreachable" -> "LLM API failed: Connection error."
      [] reply.kind = "http_error" -> "LLM API failed: Error code: 500"
      [] reply.kind = "timeout" -> "LLM API failed: Request timed out."
      [] OTHER -> "LLM API failed: NoneType object has no attribute total_tokens"

_ollama_completion(reply) ==
    IF reply.kind # "ok"
    THEN [raised |-> TRUE,
          error |-> "Ollama is not running. Start it with: ollama serve",
          response |-> NoResponse]
    ELSE [raised |-> FALSE, error |-> "",
          response |->
            [content |-> reply.text, response |-> reply.text,
             tokens_used |-> IF reply.has_usage THEN reply.tokens ELSE 0,
             model |-> "llama3.2", provider |-> "ollama", cost_usd |-> 0]]

\* response.usage.total_tokens fails where the backend reports no usage; the
\* except branch turns every failure into "LLM API failed"
_openai_compatible_completion(provider, reply) ==
    IF reply.kind # "ok" \/ ~reply.has_usage
    THEN [raised |-> TRUE, error |-> HostedError(reply), response |-> NoResponse]
    ELSE [raised |-> FALSE, error |-> "",
          response |->
            [response |-> reply.text, tokens_used |-> reply.tokens,
             model |-> "gpt", provider |-> provider]]

generate_completion(provider, reply) ==
    IF provider = "ollama" THEN _ollama_completion(reply)
    ELSE _openai_compatible_completion(provider, reply)

----------------------------------------------------------------------------
\* Tables the pipeline reads.  0 stands for None in a foreign key.

Teams == {1, 2}
Dates == {1, 2}

TeamsTable == [id \in Teams |-> IF id = 1 THEN "Platform" ELSE "Mobile"]
UsersTable == [id \in {1, 2, 3} |->
                 IF id = 1 THEN "Alice" ELSE IF id = 2 THEN "Bob" ELSE "Carol"]
SprintsTable == [id \in {1} |-> [name |-> "Sprint 1", goal |-> "Ship search"]]

TeamFallbackName(team_id) == IF team_id = 1 THEN "Team 1" ELSE "Team 2"

Note(id, team_id, date, user_id, sprint_id, completed, planned, blocked) ==
    [id |-> id, team_id |-> team_id, date |-> date, user_id |-> user_id,
     sprint_id |-> sprint_id, completed_yesterday |-> completed,
     planned_today |-> planned, blockers |-> blocked]

N1 == Note(1, 1, 1, 1, 0, <<"Shipped login">>, <<"Start search">>, <<>>)
N2 == Note(2, 1, 1, 2, 1, <<>>, <<"Review PR">>, <<"Waiting on design">>)
N3 == Note(3, 1, 2, 3, 1, <<"Fixed bug">>, <<"Write tests">>, <<>>)
N4 == Note(4, 2, 1, 3, 0, <<"Fixed bug">>, <<>>, <<>>)

NoteTables == {{N1, N2, N3}, {N1, N4}, {}}

----------------------------------------------------------------------------
\* StandupAgent (agents/standup_agent.py)

\* the rows of a set in id order, as the query returns them
RECURSIVE RowsById(_)
RowsById(rows) ==
    IF rows = {} THEN <<>>
    ELSE LET first == CHOOSE r \in rows : \A o \in rows : r.id <= o.id
         IN  <<first>> \o RowsById(rows \ {first})

\* mutant: the query filters on the team alone
_fetch_standup_notes_team_only(table, team_id, target_date) ==
    RowsById({n \in table : n.team_id = team_id})

_fetch_standup_notes(table, team_id, target_date) ==
    RowsById({n \in table : n.team_id = team_id /\ n.date = target_date})

\* "x".join(list) if list else placeholder
ListOrPlaceholder(list, placeholder) ==
    IF list # <<>> THEN list ELSE <<placeholder>>

NoteText(note) ==
    [user_name |-> IF note.user_id \in DOMAIN UsersTable
                   THEN UsersTable[note.user_id] ELSE "Unknown User",
     completed |-> ListOrPlaceholder(note.completed_yesterday, "Nothing reported"),
     planned |-> ListOrPlaceholder(note.planned_today, "Nothing planned"),
     blockers |-> ListOrPlaceholder(note.blockers, "No blockers")]

NoPrompt == [team_name |-> "", target_date |-> 0, sprint_info |-> <<>>, notes_text |-> <<>>]

_format_prompt_for_llm(notes, team_id, target_date) ==
    [team_name |-> IF team_id \in DOMAIN TeamsTable
                   THEN TeamsTable[team_id] ELSE TeamFallbackName(team_id),
     target_date |-> target_date,
     sprint_info |->
        IF notes # <<>> /\ notes[1].sprint_id # 0
           /\ notes[1].sprint_id \in DOMAIN SprintsTable
        THEN <<SprintsTable[notes[1].sprint_id].name,
               SprintsTable[notes[1].sprint_id].goal>>
        ELSE <<>>,
     notes_text |-> [i \in 1..Len(notes) |-> NoteText(notes[i])]]

\* the StandupSummary row _save_summary builds
NewSummary(id, team_id, target_date, parsed_data, notes) ==
    [id |-> id, date |-> target_date, team_id |-> team_id,
     sprint_id |-> IF notes # <<>> THEN notes[1].sprint_id ELSE 0,
     creator_id |-> IF notes # <<>> THEN notes[1].user_id ELSE 0,
     summary_text |-> parsed_data.summary_text,
     completed_yesterday |-> parsed_data.completed_yesterday,
     planned_today |-> parsed_data.planned_today,
     blockers |-> parsed_data.blockers,
     absent_members |-> parsed_data.absent_members,
     ai_generated |-> TRUE,
     sentiment_score |-> parsed_data.sentiment_score,
     risk_indicators |-> parsed_data.risk_indicators,
     action_items |-> parsed_data.action_items,
     posted_to_slack |-> FALSE, human_approved |-> FALSE]

\* mutant: the row is added to the session and never committed
InsertSummary_NoCommit(table, row) == table

\* mutant: the row replaces the summary the (team, date) pair already has
InsertSummary_Upsert(table, row) ==
    {s \in table : ~(s.team_id = row.team_id /\ s.date = row.date)} \cup {row}

\* a variant in which the new row replaces the rows of the table
InsertSummary_ReplaceAll(table, row) == {row}

\* session.add(summary); session.commit(): the table with the row added
InsertSummary(table, row) == table \cup {row}

\* creator_id is declared nullable=False: the commit rejects a row without it
CommitAccepts(row) == row.creator_id # 0

\* the value execute returns when there are no notes
NoDataResult(team_id, target_date) ==
    [success |-> FALSE, error |-> "No standup notes found for this date",
     date |-> target_date, team_id |-> team_id]

\* the value execute returns after the summary is saved
SuccessResult(summary, team_id, target_date, parsed_data, llm_response) ==
    [success |-> TRUE, summary_id |-> summary.id, date |-> target_date,
     team_id |-> team_id,
     summary_text |-> parsed_data.summary_text,
     completed_yesterday |-> parsed_data.completed_yesterday,
     planned_today |-> parsed_data.planned_today,
     blockers |-> parsed_data.blockers,
     action_items |-> parsed_data.action_items,
     risk_indicators |-> parsed_data.risk_indicators,
     tokens_used |-> DictGet(llm_response, "tokens_used", 0),
     cost_usd |-> DictGet(llm_response, "cost_usd", 0)]

\* mutant: the check for an empty note list is lost
NoNotes_Never(notes) == FALSE

\* "if not standup_notes"
NoNotes(notes) == notes = <<>>

----------------------------------------------------------------------------
\* generate_standup_summary (api/v1/standups.py): what the caller sees

NoResult == [success |-> FALSE, error |-> "", date |-> 0, team_id |-> 0]
NoHttp == [status |-> 0, detail |-> ""]

\* the endpoint's answer to a result execute returned
RespondToResult(result) ==
    IF ~DictGet(result, "success", FALSE)
    THEN [status |-> 400,
          detail |-> DictGet(result, "error", "Failed to generate standup summary")]
    ELSE [status |-> 201, detail |-> "Standup summary generated successfully"]

\* mutant: every exception is answered like a run without notes
RespondToException_AsNoData(error) ==
    [status |-> 400, detail |-> "No standup notes found for this date"]

\* the endpoint's answer to an exception out of execute
RespondToException(error) == [status |-> 500, detail |-> "Internal server error"]

----------------------------------------------------------------------------
\* Parser harness: _parse_llm_response applied to one bounded input

ParserInit ==
    /\ p_pc = "ready"
    /\ p_input \in ParserInputs
    /\ p_out = NoParsedData
    /\ backend = "up"
    /\ env = [USE_OLLAMA |-> "true", api_key |-> "other"]
    /\ standup_notes = {}
    /\ standup_summaries = {}
    /\ next_id = 1
    /\ run = <<>>
    /\ ServicesIdle

\* one call of _parse_llm_response
Parse ==
    /\ p_pc = "ready"
    /\ LET r == _parse_llm_response(p_input)
       IN  /\ p_pc' = IF r.raised THEN "raised" ELSE "returned"
           /\ p_out' = r.value
    /\ UNCHANGED <<p_input, rvars, svars>>

ParserNext == Parse

ParserSpec == ParserInit /\ [][ParserNext]_vars

----------------------------------------------------------------------------
\* Bullet harness: _parse_bullet_list applied to one bounded section

\* the lines of a section: bullets with each marker, with and without blanks
\* around them, a marker with no text, a marker inside the prose, prose,
\* blank and empty lines
SectionLineKinds ==
    {<<"-", SP, "w1">>, <<"*", SP, "w1">>, <<"U+2022", SP, "w1">>,
     <<SP, "-", "w1", SP>>, <<"*", "w2", SP, "w1">>,
     <<"w1">>, <<"w1", SP, "-", SP, "w2">>,
     <<"-">>, <<"*", SP>>, <<SP>>, <<>>}

RECURSIVE SectionLineSeqs(_)
SectionLineSeqs(n) ==
    IF n = 0 THEN {<<>>}
    ELSE LET shorter == SectionLineSeqs(n - 1)
         IN  shorter \cup {Append(ls, l) : ls \in shorter, l \in SectionLineKinds}

\* _extract_section strips what it returns
Sections == {Strip(JoinLines(ls)) : ls \in SectionLineSeqs(MaxLines)}

BulletInit ==
    /\ p_pc = "ready"
    /\ p_input \in {[text |-> s] : s \in Sections}
    /\ p_out = <<>>
    /\ backend = "up"
    /\ env = [USE_OLLAMA |-> "true", api_key |-> "other"]
    /\ standup_notes = {}
    /\ standup_summaries = {}
    /\ next_id = 1
    /\ run = <<>>
    /\ ServicesIdle

\* one call of _parse_bullet_list
ParseBullets ==
    /\ p_pc = "ready"
    /\ p_pc' = "returned"
    /\ p_out' = _parse_bullet_list(p_input.text)
    /\ UNCHANGED <<p_input, rvars, svars>>

BulletNext == ParseBullets

BulletSpec == BulletInit /\ [][BulletNext]_vars

----------------------------------------------------------------------------
\* The pipeline: one request to POST /generate, stage by stage.  A request
\* suspends at each await, so the stages of two requests interleave.
\* trace is the history of the stages the request has executed.

Runs == 1..MaxRuns

IdleRun ==
    [pc |-> "idle", team_id |-> 0, date |-> 0, provider |-> "",
     notes |-> <<>>, prompt |-> NoPrompt, llm_response |-> NoResponse,
     parsed_data |-> NoParsedData, outcome |-> "none", error |-> "",
     result |-> NoResult, http |-> NoHttp, trace |-> <<>>,
     reply |-> NoReply, overlapped |-> FALSE, requests |-> 0]

\* a request between its start and its answer
InFlight(i) == run[i].pc \notin {"idle", "responded"}

\* history: run i takes a step while another request is in flight
Step(i, r) ==
    [r EXCEPT !.overlapped = @ \/ \E j \in Runs \ {i} : InFlight(j)]

Init ==
    /\ backend \in Backends
    /\ env \in Environments
    /\ standup_notes \in NoteTables
    /\ standup_summaries = {}
    /\ next_id = 1
    /\ run = [r \in Runs |-> IdleRun]
    /\ p_pc = "off"
    /\ p_input = NoResponse
    /\ p_out = NoParsedData
    /\ ServicesIdle

\* the endpoint answers: execute returned result
Returned(r, result, outcome) ==
    [r EXCEPT !.pc = "responded", !.outcome = outcome, !.result = result,
              !.http = RespondToResult(result)]

\* the endpoint answers: execute raised
Raised(r, error) ==
    [r EXCEPT !.pc = "responded", !.outcome = "raised", !.error = error,
              !.http = RespondToException(error)]

\* generate_standup_summary is called: StandupAgent() detects the provider,
\* execute starts
Request(i) ==
    /\ run[i].pc = "idle"
    /\ \E team_id \in Teams, target_date \in Dates :
         run' = [run EXCEPT ![i] =
                    Step(i, [@ EXCEPT !.pc = "AGGREGATE", !.team_id = team_id,
                                      !.date = target_date,
                                      !.provider = _detect_provider(env)])]
    /\ UNCHANGED <<backend, env, standup_notes, standup_summaries, next_id, pvars, svars>>

\* Step 1: fetch the notes; none is the no_data result
Aggregate(i) ==
    /\ run[i].pc = "AGGREGATE"
    /\ LET notes == _fetch_standup_notes(standup_notes, run[i].team_id, run[i].date)
           r == Step(i, [run[i] EXCEPT !.notes = notes,
                                      !.trace = Append(@, "AGGREGATE")])
       IN  run' = [run EXCEPT ![i] =
                     IF NoNotes(notes)
                     THEN Returned(r, NoDataResult(r.team_id, r.date), "no_data")
                     ELSE [r EXCEPT !.pc = "COMPOSE"]]
    /\ UNCHANGED <<backend, env, standup_notes, standup_summaries, next_id, pvars, svars>>

\* Step 2: format the prompt
Compose(i) ==
    /\ run[i].pc = "COMPOSE"
    /\ run' = [run EXCEPT ![i] =
                 Step(i, [@ EXCEPT !.pc = "GENERATE",
                                   !.prompt = _format_prompt_for_llm(
                                       run[i].notes, run[i].team_id, run[i].date),
                                   !.trace = Append(@, "COMPOSE")])]
    /\ UNCHANGED <<backend, env, standup_notes, standup_summaries, next_id, pvars, svars>>

\* a variant that calls the Gateway again after a failed call
OnGatewayFailure_Retry(r, error) == [r EXCEPT !.pc = "GENERATE"]

\* _call_llm awaits generate_completion once and has no handler; the except
\* clause of _execute_with_session logs and re-raises
OnGatewayFailure(r, error) == Raised(r, error)

\* Step 3: call the LLM; a failure of the provider is re-raised.  requests
\* counts the requests the run has sent to the backend.
Generate(i) ==
    /\ run[i].pc = "GENERATE"
    /\ \E reply \in RepliesOf(backend) :
         LET got == generate_completion(run[i].provider, reply)
             r == Step(i, [run[i] EXCEPT !.trace = Append(@, "GENERATE"),
                                          !.reply = reply,
                                          !.requests = @ + 1])
         IN  run' = [run EXCEPT ![i] =
                       IF got.raised THEN OnGatewayFailure(r, got.error)
                       ELSE [r EXCEPT !.pc = "PARSE",
                                      !.llm_response = got.response]]
    /\ UNCHANGED <<backend, env, standup_notes, standup_summaries, next_id, pvars, svars>>

\* Step 4: parse the response
ParseResponse(i) ==
    /\ run[i].pc = "PARSE"
    /\ LET got == _parse_llm_response(run[i].llm_response)
           r == Step(i, [run[i] EXCEPT !.trace = Append(@, "PARSE")])
       IN  run' = [run EXCEPT ![i] =
                     IF got.raised THEN Raised(r, got.error)
                     ELSE [r EXCEPT !.pc = "PERSIST", !.parsed_data = got.value]]
    /\ UNCHANGED <<backend, env, standup_notes, standup_summaries, next_id, pvars, svars>>

\* Step 5: save the summary and return; the store may reject the write
Persist(i) ==
    /\ run[i].pc = "PERSIST"
    /\ \E store_up \in BOOLEAN :
         LET summary == NewSummary(next_id, run[i].team_id, run[i].date,
                                   run[i].parsed_data, run[i].notes)
             r == Step(i, [run[i] EXCEPT !.trace = Append(@, "PERSIST")])
         IN  IF store_up /\ CommitAccepts(summary)
             THEN /\ standup_summaries' = InsertSummary(standup_summaries, summary)
                  /\ next_id' = next_id + 1
                  /\ run' = [run EXCEPT ![i] =
                               Returned([r EXCEPT !.trace = Append(@, "DONE")],
                                        SuccessResult(summary, r.team_id, r.date,
                                                      r.parsed_data, r.llm_response),
                                        "success")]
             ELSE /\ run' = [run EXCEPT ![i] = Raised(r, "commit failed")]
                  /\ UNCHANGED <<standup_summaries, next_id>>
    /\ UNCHANGED <<backend, env, standup_notes, pvars, svars>>

\* The environment of the running process changes: USE_OLLAMA is set or
\* cleared in os.environ, which _detect_provider reads with os.getenv at each
\* construction of an LLMProvider.
SetEnv ==
    /\ \E value \in {"true", ""} \ {env.USE_OLLAMA} :
         env' = [env EXCEPT !.USE_OLLAMA = value]
    /\ UNCHANGED <<backend, standup_notes, standup_summaries, next_id, run, pvars, svars>>

\* the steps of request i
RunStep(i) ==
    \/ Request(i)
    \/ Aggregate(i)
    \/ Compose(i)
    \/ Generate(i)
    \/ ParseResponse(i)
    \/ Persist(i)

Next ==
    \/ \E i \in Runs : RunStep(i)
    \/ SetEnv

Spec == Init /\ [][Next]_vars

\* The event loop resumes every coroutine whose awaited call has come back,
\* so a request that has started is not left waiting forever at a stage it
\* can take.  Nothing obliges a new request to arrive or the environment to
\* change.  The last conjunct is WF_vars(ParseResponse(i)) with the enabling
\* condition of ParseResponse(i), its guard, written out.
FairRun(i) ==
    /\ WF_vars(Aggregate(i))
    /\ WF_vars(Compose(i))
    /\ WF_vars(Generate(i))
    /\ WF_vars(Persist(i))
    /\ ([]<>(run[i].pc # "PARSE") \/ []<><<ParseResponse(i)>>_vars)

\* the process with one table of notes: two pairs have notes, two have none
FairInit == Init /\ standup_notes = {N1, N4}

FairSpec == FairInit /\ [][Next]_vars /\ \A i \in Runs : FairRun(i)

----------------------------------------------------------------------------
\* Properties of the parser (checked under ParserSpec)

\* the content the parser harness was given
InputContent == DictGet(p_input, "content", <<>>)

\* C1 (parser totality): whatever completion it is handed, empty text, prose,
\* broken JSON or valid JSON of any shape, _parse_llm_response returns a
\* parsed summary and never raises.
C1_ParserTotality == p_pc # "raised"

\* whether a decoded value is a valid value of a structured key
ValidValue(key, atom) ==
    IF key = "sentiment"
    THEN JsonType(atom) = "str" /\ Lower(atom) \in DOMAIN sentiment_map
    ELSE JsonType(atom) = "list"

\* the documented default of a structured field of the parsed summary
DefaultField(field) == IF field = "sentiment_score" THEN 5 ELSE "[]"

\* the field a structured key is stored in
FieldOf(key) == IF key = "sentiment" THEN "sentiment_score" ELSE key

\* the value a valid decoded value gives its field
FieldValue(key, atom) ==
    IF key = "sentiment" THEN sentiment_map[Lower(atom)] ELSE atom

\* C2 (default substitution): when the structured-data candidate is invalid
\* JSON all four structured fields take their defaults; when it decodes to an
\* object, exactly the fields whose key is missing or holds an invalid value
\* take their defaults and the others keep the decoded values.
C2_DefaultSubstitution ==
    LET decoded == json_loads(JsonStrOf(InputContent))
    IN  (p_pc # "ready" /\ (~decoded.ok \/ decoded.type = "dict")) =>
          /\ p_pc = "returned"
          /\ \A key \in StructuredKeys :
               p_out[FieldOf(key)] =
                  IF decoded.ok /\ key \in DOMAIN decoded.members
                     /\ ValidValue(key, decoded.members[key])
                  THEN FieldValue(key, decoded.members[key])
                  ELSE DefaultField(FieldOf(key))

\* the lines of the narrative and the header lines among them
IsHeaderLine(line, marker) == Strip(line) = HeaderLine(marker)

HeaderAt(lines, marker) ==
    {k \in 1..Len(lines) : IsHeaderLine(lines[k], marker)}

\* the model emitted each header at most once and in the order of the prompt
HeadersInOrder(lines) ==
    /\ \A m \in Markers : Cardinality(HeaderAt(lines, m)) <= 1
    /\ \A a \in HeaderAt(lines, "COMPLETED YESTERDAY"),
          b \in HeaderAt(lines, "PLANNED TODAY") : a < b
    /\ \A a \in HeaderAt(lines, "COMPLETED YESTERDAY") \cup HeaderAt(lines, "PLANNED TODAY"),
          b \in HeaderAt(lines, "BLOCKERS") : a < b
    /\ \A m \in Markers \ {"NOTES"} :
          \A a \in HeaderAt(lines, m), b \in HeaderAt(lines, "NOTES") : a < b

\* C3 (section isolation): the bullets after the BLOCKERS header and before
\* the NOTES header are never in planned_today, whatever their prose says and
\* with or without a PLANNED TODAY header: planned_today is what the text
\* before the BLOCKERS header gives.
C3_SectionIsolation ==
    LET lines == SplitLines(SummaryTextOf(InputContent))
        bl == HeaderAt(lines, "BLOCKERS")
        before == JoinLines(SubSeq(lines, 1, MinOf(bl) - 1))
    IN  (p_pc = "returned" /\ bl # {} /\ HeadersInOrder(lines)) =>
          p_out.planned_today =
             _parse_bullet_list(_extract_section(before, "PLANNED TODAY", "BLOCKERS"))

----------------------------------------------------------------------------
\* Properties of the pipeline (checked under Spec)

StageOrder == <<"AGGREGATE", "COMPOSE", "GENERATE", "PARSE", "PERSIST", "DONE">>

IsPrefix(a, b) == Len(a) <= Len(b) /\ a = SubSeq(b, 1, Len(a))

\* the notes the table holds for a (team, date) pair
NotesOfPair(team_id, target_date) ==
    {n \in standup_notes : n.team_id = team_id /\ n.date = target_date}

Responded(i) == run[i].pc = "responded"
Succeeded(i) == Responded(i) /\ run[i].outcome = "success"

\* the Gateway call of run i was made and failed
GatewayFailed(i) ==
    /\ run[i].reply.kind # "none"
    /\ \/ run[i].reply.kind # "ok"
       \/ run[i].provider # "ollama" /\ ~run[i].reply.has_usage

\* the rows of the summary table with the id run i was given
RowsOfRun(i) == {s \in standup_summaries : s.id = run[i].result.summary_id}

\* C4 (no-data short-circuit): a run for a (team, date) without notes executes
\* no stage but AGGREGATE (no prompt, no Gateway call, no parse, no write) and
\* returns, without raising, the failure value with the reason, the team id
\* and the date.
C4_NoDataShortCircuit ==
    \A i \in Runs :
        (run[i].pc # "idle" /\ NotesOfPair(run[i].team_id, run[i].date) = {}) =>
            /\ run[i].trace \in {<<>>, <<"AGGREGATE">>}
            /\ run[i].reply.kind = "none"
            /\ run[i].outcome # "raised"
            /\ run[i].trace = <<"AGGREGATE">> =>
                 /\ Responded(i)
                 /\ run[i].outcome = "no_data"
                 /\ run[i].result =
                       [success |-> FALSE,
                        error |-> "No standup notes found for this date",
                        date |-> run[i].date, team_id |-> run[i].team_id]

C4_Witness ==
    \E i \in Runs :
        /\ Responded(i) /\ run[i].outcome = "no_data"
        /\ NotesOfPair(run[i].team_id, run[i].date) = {}

\* C5 (provider failure): a run whose Gateway call fails ends with a raised
\* error, executes neither PARSE nor PERSIST, and its caller is answered
\* differently from the caller of a run that found no notes.
C5_ProviderFailure ==
    \A i \in Runs :
        GatewayFailed(i) =>
            /\ Responded(i)
            /\ run[i].outcome = "raised"
            /\ run[i].trace = <<"AGGREGATE", "COMPOSE", "GENERATE">>
            /\ run[i].http.status # 201
            /\ \A team_id \in Teams, target_date \in Dates :
                 run[i].http # RespondToResult(NoDataResult(team_id, target_date))
            /\ \A j \in Runs :
                 (Responded(j) /\ run[j].outcome = "no_data") =>
                    run[i].http.status # run[j].http.status

C5_Witness ==
    \E i, j \in Runs :
        /\ GatewayFailed(i) /\ Responded(i)
        /\ Responded(j) /\ run[j].outcome = "no_data"

\* the fields of the parsed summary that execute returns
ReturnedParsedFields ==
    {"summary_text", "completed_yesterday", "planned_today", "blockers",
     "action_items", "risk_indicators"}

\* the record part of C6: one row per successful run, for its team and date
\* and under the id it returns, and no row for any other run
OneRowPerSuccess ==
    /\ Cardinality(standup_summaries) = Cardinality({i \in Runs : Succeeded(i)})
    /\ \A i \in Runs :
         Succeeded(i) =>
            /\ Cardinality(RowsOfRun(i)) = 1
            /\ \A s \in RowsOfRun(i) :
                 s.team_id = run[i].team_id /\ s.date = run[i].date
            /\ run[i].result.tokens_used = DictGet(run[i].llm_response, "tokens_used", 0)
            /\ run[i].result.cost_usd = DictGet(run[i].llm_response, "cost_usd", 0)

C7_StageOrdering ==
    \A i \in Runs :
        /\ IsPrefix(run[i].trace, StageOrder)
        /\ Responded(i) =>
             \/ run[i].outcome = "success" /\ run[i].trace = StageOrder
             \/ run[i].outcome = "no_data" /\ run[i].trace = <<"AGGREGATE">>
             \/ /\ run[i].outcome = "raised"
                /\ run[i].trace[Len(run[i].trace)] \in {"GENERATE", "PERSIST"}

\* the row run i saved, as _save_summary built it from the run's own values
RowSavedBy(i) ==
    NewSummary(run[i].result.summary_id, run[i].team_id, run[i].date,
               run[i].parsed_data, run[i].notes)

SamePair(i, j) == run[i].team_id = run[j].team_id /\ run[i].date = run[j].date

\* C8 (no deduplication): two successful runs for the same (team, date),
\* one after the other or interleaved, leave two separate records; neither
\* overwrites, updates or removes the record of the other.
C8_NoDeduplication ==
    \A i, j \in Runs :
        (i # j /\ Succeeded(i) /\ Succeeded(j) /\ SamePair(i, j)) =>
            /\ run[i].result.summary_id # run[j].result.summary_id
            /\ RowSavedBy(i) \in standup_summaries
            /\ RowSavedBy(j) \in standup_summaries
            /\ Cardinality({s \in standup_summaries :
                              s.team_id = run[i].team_id /\ s.date = run[i].date}) >= 2

C8_Witness ==
    \E i, j \in Runs :
        /\ i # j /\ Succeeded(i) /\ Succeeded(j) /\ SamePair(i, j)
        /\ run[i].overlapped /\ run[j].overlapped

\* what run i parses when nothing but its own provider and its own backend
\* reply decides it
OwnParse(i) ==
    _parse_llm_response(generate_completion(run[i].provider, run[i].reply).response)

\* C9 (independence of concurrent runs): under every interleaving a run
\* aggregates exactly the notes of its own (team, date) pair, and its result
\* and its record are those its own notes and its own completion give (the
\* id is the store's).
C9_Independence ==
    \A i \in Runs :
        /\ run[i].trace # <<>> =>
             /\ {run[i].notes[k] : k \in 1..Len(run[i].notes)}
                   = NotesOfPair(run[i].team_id, run[i].date)
             /\ Len(run[i].notes)
                   = Cardinality(NotesOfPair(run[i].team_id, run[i].date))
        /\ Responded(i) =>
             (run[i].outcome = "no_data"
                <=> NotesOfPair(run[i].team_id, run[i].date) = {})
        /\ Succeeded(i) =>
             \E s \in standup_summaries :
                /\ s = NewSummary(run[i].result.summary_id, run[i].team_id,
                                  run[i].date, OwnParse(i).value,
                                  RowsById(NotesOfPair(run[i].team_id, run[i].date)))
                /\ run[i].result =
                      SuccessResult(s, run[i].team_id, run[i].date, OwnParse(i).value,
                                    generate_completion(run[i].provider,
                                                        run[i].reply).response)

C9_Witness ==
    \E i, j \in Runs :
        /\ i # j /\ Succeeded(i) /\ Succeeded(j) /\ ~SamePair(i, j)
        /\ run[i].overlapped /\ run[j].overlapped

\* prose: no header, no fence, no bullet line (it may name a section)
PlainProse(text) ==
    /\ text # <<>>
    /\ \A k \in 1..Len(text) : text[k] \notin {HeaderPrefix, FenceJson, Fence}
    /\ \A k \in 1..Len(SplitLines(text)) : ~IsBulletLine(SplitLines(text)[k])

\* the Gateway of run i returned plain prose
GotPlainProse(i) ==
    run[i].reply.kind = "ok" /\ ~GatewayFailed(i) /\ PlainProse(run[i].reply.text)

\* C10 (malformed completion never fails a run): when notes exist and the
\* Gateway returns plain prose without headers and without a JSON fence, the
\* run does not fail on the completion: unless the store rejects the write it
\* succeeds, and the one record it saves has empty completed_yesterday,
\* planned_today and blockers and the default structured fields.
C10_MalformedCompletion ==
    \A i \in Runs :
        (GotPlainProse(i) /\ Responded(i)) =>
            /\ \/ run[i].outcome = "success"
               \/ run[i].outcome = "raised" /\ run[i].error = "commit failed"
            /\ run[i].outcome = "success" =>
                 /\ Cardinality(RowsOfRun(i)) = 1
                 /\ \A s \in RowsOfRun(i) :
                      /\ s.completed_yesterday = <<>>
                      /\ s.planned_today = <<>>
                      /\ s.blockers = <<>>
                      /\ s.action_items = "[]"
                      /\ s.risk_indicators = "[]"
                      /\ s.sentiment_score = 5
                      /\ s.absent_members = "[]"

C10_Witness ==
    \E i \in Runs :
        /\ GotPlainProse(i) /\ Succeeded(i)
        /\ run[i].provider = "ollama"
        /\ Find(run[i].llm_response.content, "BLOCKERS", 0) # -1

----------------------------------------------------------------------------
\* End-to-end properties of the pipeline (checked under Spec)

\* the lines between the header of a section and the header of the next one
SectionLines(lines, marker, next_marker) ==
    SubSeq(lines, MinOf(HeaderAt(lines, marker)) + 1,
                  MinOf(HeaderAt(lines, next_marker)) - 1)

\* the bullet items that stand under a header, in line order
ItemsUnder(text, marker, next_marker) ==
    BulletsOf(SectionLines(SplitLines(text), marker, next_marker))

\* the Gateway call of run i was answered with the well-formed completion:
\* the four headed sections followed by the JSON fence
GotWellFormed(i) ==
    run[i].reply.kind = "ok" /\ run[i].reply.text = WellFormedCompletion

\* C11 (end to end on a well-formed completion): when notes exist and the
\* Gateway returns the four headed sections followed by the JSON fence, the
\* record the run saves has, as completed_yesterday, planned_today and
\* blockers, the bullet items under the corresponding headers, as structured
\* fields the decoded JSON values, and human_approved and posted_to_slack
\* both false.
C11_WellFormedEndToEnd ==
    \A i \in Runs :
        (Succeeded(i) /\ GotWellFormed(i)) =>
            /\ Cardinality(RowsOfRun(i)) = 1
            /\ \A s \in RowsOfRun(i) :
                 /\ s.completed_yesterday =
                       ItemsUnder(WellFormedNarrative, "COMPLETED YESTERDAY", "PLANNED TODAY")
                 /\ s.planned_today =
                       ItemsUnder(WellFormedNarrative, "PLANNED TODAY", "BLOCKERS")
                 /\ s.blockers = ItemsUnder(WellFormedNarrative, "BLOCKERS", "NOTES")
                 /\ s.action_items = MemberVal("ai=[item]")
                 /\ s.risk_indicators = MemberVal("ri=[risk]")
                 /\ s.sentiment_score = 8
                 /\ s.absent_members = MemberVal("am=[bob]")
                 /\ s.human_approved = FALSE
                 /\ s.posted_to_slack = FALSE

\* the Gateway call of run i returned a completion
GatewayReturned(i) == run[i].reply.kind = "ok" /\ ~GatewayFailed(i)

\* the text run i hands to the parser: llm_response.get("content", "")
TextPassedToParser(i) == DictGet(run[i].llm_response, "content", <<>>)

\* C12 (uniform Gateway result): on the local inference server and on the
\* hosted chat-completion API alike, the text the run hands to the parser is
\* the full content the backend generated, so the parsed summary and the
\* saved narrative are those of that content whichever backend produced it.
C12_UniformGatewayResult ==
    \A i \in Runs :
        GatewayReturned(i) =>
            LET full == _parse_llm_response([content |-> run[i].reply.text])
            IN  /\ TextPassedToParser(i) = run[i].reply.text
                /\ (run[i].pc = "PERSIST" \/ Succeeded(i)) =>
                      run[i].parsed_data = full.value
                /\ Succeeded(i) =>
                      \A s \in RowsOfRun(i) :
                          s.summary_text = SummaryTextOf(run[i].reply.text)

\* the error tells the operator how to start the dependency
IsProviderUnavailable(error) ==
    error = "Ollama is not running. Start it with: ollama serve"

\* the error is the request-failed condition with the backend's own detail
IsProviderRequestFailed(error, kind) ==
    \/ kind = "http_error" /\ error = "LLM API failed: Error code: 500"
    \/ kind = "timeout" /\ error = "LLM API failed: Request timed out."

\* C13 (Gateway failure classification): on either backend the failed call
\* raises the unavailable condition with guidance on how to start the
\* dependency exactly when the backend could not be reached at all, and the
\* distinct request-failed condition with the backend's raw detail when the
\* backend was reachable and answered with an error status or timed out.
C13_FailureClassification ==
    \A i \in Runs :
        (GatewayFailed(i) /\ Responded(i)) =>
            /\ IsProviderUnavailable(run[i].error)
                  <=> run[i].reply.kind = "unreachable"
            /\ run[i].reply.kind \in {"http_error", "timeout"} =>
                  IsProviderRequestFailed(run[i].error, run[i].reply.kind)

\* the Gateway call of run i was made
GatewayCalled(i) == run[i].reply.kind # "none"

\* C14 (backend selection fixed per process): all Gateway calls of the runs
\* of one process are served by the backend family selected at first use,
\* even when the environment changes after that selection.
C14_SelectionFixedPerProcess ==
    \A i, j \in Runs :
        (GatewayCalled(i) /\ GatewayCalled(j)) => run[i].provider = run[j].provider

----------------------------------------------------------------------------
\* Termination (checked under FairSpec)

\* C15 (termination): every run that has started eventually ends, in success,
\* in no_data or in a raised failure, on either backend family; a backend
\* that never answers makes the Gateway call fail after its bounded wait, it
\* does not leave the run waiting forever.
C15_RunsTerminate ==
    \A i \in Runs : (run[i].pc # "idle") ~> Responded(i)

\* both families: a run ended by the timeout of a backend that never answered
C15_Witness ==
    \E i, j \in Runs :
        /\ backend = "silent"
        /\ Responded(i) /\ run[i].reply.kind = "timeout"
        /\ run[i].outcome = "raised" /\ run[i].provider = "ollama"
        /\ Responded(j) /\ run[j].reply.kind = "timeout"
        /\ run[j].outcome = "raised" /\ run[j].provider # "ollama"

----------------------------------------------------------------------------
\* Further properties of the Gateway (checked under Spec)

\* the backend answered run i with a completion and reported no token usage
AnsweredWithoutUsage(i) == run[i].reply.kind = "ok" /\ ~run[i].reply.has_usage

\* C16 (token usage is best effort): when the backend, of either family,
\* returns generated content without token usage, generate_completion returns
\* the content with a token count of zero and the run succeeds (unless the
\* store rejects the write); the missing usage is not turned into a failure.
C16_TokenUsageBestEffort ==
    \A i \in Runs :
        AnsweredWithoutUsage(i) =>
            /\ ~GatewayFailed(i)
            /\ DictGet(run[i].llm_response, "tokens_used", 0) = 0
            /\ Responded(i) =>
                 \/ run[i].outcome = "success" /\ run[i].result.tokens_used = 0
                 \/ run[i].outcome = "raised" /\ run[i].error = "commit failed"

----------------------------------------------------------------------------
\* Properties of the bullet extraction (checked under BulletSpec)

MaxOf(S) == CHOOSE x \in S : \A y \in S : x >= y

\* the position of the first character of a line that is no whitespace
FirstNonBlank(line) ==
    MinOf({k \in 1..Len(line) : line[k] \notin Whitespace})

\* the first non-whitespace character of the line is one of the three markers
IsMarkedLine(line) ==
    /\ \E k \in 1..Len(line) : line[k] \notin Whitespace
    /\ line[FirstNonBlank(line)] \in BulletMarkers

\* what stands after the marker, without the whitespace around it
TextAfterMarker(line) ==
    LET m == FirstNonBlank(line)
        solid == {k \in (m + 1)..Len(line) : line[k] \notin Whitespace}
    IN  IF solid = {} THEN <<>> ELSE SubSeq(line, MinOf(solid), MaxOf(solid))

\* a marked line with text after the marker
IsItemLine(line) == IsMarkedLine(line) /\ TextAfterMarker(line) # <<>>

\* the texts after the marker of the chosen lines, in line order
TextsOf(chosen) == [n \in 1..Len(chosen) |-> TextAfterMarker(chosen[n])]

\* the line with its marker, if it has one, replaced by marker m
Remarked(line, m) ==
    IF IsMarkedLine(line)
    THEN [line EXCEPT ![FirstNonBlank(line)] = m]
    ELSE line

\* the section with every marker replaced by marker m
RemarkedSection(text, m) ==
    LET lines == SplitLines(text)
    IN  JoinLines([n \in 1..Len(lines) |-> Remarked(lines[n], m)])

\* C18 as stated: a line of the section is an item if and only if its first
\* non-whitespace character is "-", "*" or the bullet dot; the items are the
\* stripped texts after the marker, in line order.
C18_MarkedLinesAreItems ==
    p_pc = "returned" =>
        p_out = TextsOf(SelectSeq(SplitLines(p_input.text), IsMarkedLine))

\* C18 (amended): a line of the section is an item if and only if its first
\* non-whitespace character is "-", "*" or the bullet dot and text follows
\* the marker; the items are the stripped texts after the marker, in line
\* order; the same section written with any one of the three markers gives
\* the same items; a section without such a line gives the empty list.
C18_BulletEquivalence ==
    p_pc = "returned" =>
        /\ p_out = TextsOf(SelectSeq(SplitLines(p_input.text), IsItemLine))
        /\ \A m \in BulletMarkers :
              _parse_bullet_list(RemarkedSection(p_input.text, m)) = p_out
        /\ (\A n \in 1..Len(SplitLines(p_input.text)) :
               ~IsItemLine(SplitLines(p_input.text)[n])) => p_out = <<>>

\* a section with the same item under two different markers, one of them with
\* blanks around it, and a line of prose that holds a marker
C18_Witness ==
    /\ p_pc = "returned"
    /\ SplitLines(p_input.text) =
          <<<<"*", SP, "w1">>, <<"w1", SP, "-", SP, "w2">>, <<SP, "-", "w1">>>>
    /\ p_out = <<<<"w1">>, <<"w1">>>>

----------------------------------------------------------------------------
\* The sentiment score (checked under ParserSpec)

\* the score the mapping names for a decoded sentiment value, in tenths
ScoreOf(atom) ==
    CASE atom \in {"positive", "Positive", "POSITIVE"} -> 8
      [] atom = "negative" -> 2
      [] OTHER -> 5

\* C19 (sentiment mapping): the score is 0.8 for "positive", 0.5 for
\* "neutral", 0.2 for "negative" and 0.5 for "mixed", whatever the case of
\* the letters; every other sentiment value, an absent one included, gives
\* 0.5, so the score is always one of 0.2, 0.5 and 0.8.
C19_SentimentMapping ==
    LET decoded == json_loads(JsonStrOf(InputContent))
    IN  (p_pc # "ready" /\ decoded.ok /\ decoded.type = "dict") =>
          /\ p_pc = "returned"
          /\ p_out.sentiment_score =
                IF "sentiment" \in DOMAIN decoded.members
                THEN ScoreOf(decoded.members["sentiment"])
                ELSE 5
          /\ p_out.sentiment_score \in {2, 5, 8}

----------------------------------------------------------------------------
\* The composed prompt (checked under Spec)

\* run i has composed its prompt
Composed(i) == Len(run[i].trace) >= 2

\* the sprints the notes of the pair of run i reference
SprintsReferenced(i) ==
    {n.sprint_id : n \in NotesOfPair(run[i].team_id, run[i].date)} \ {0}

\* C20 (sprint context): when at least one of the day's notes references a
\* sprint, at whatever position among the notes, the composed prompt states
\* the name and the goal of that sprint; the prompt has no sprint context
\* only when no note references a sprint.
C20_SprintContext ==
    \A i \in Runs :
        Composed(i) =>
            /\ run[i].prompt.sprint_info = <<>> <=> SprintsReferenced(i) = {}
            /\ SprintsReferenced(i) # {} =>
                  \E s \in SprintsReferenced(i) :
                      run[i].prompt.sprint_info =
                          <<SprintsTable[s].name, SprintsTable[s].goal>>

----------------------------------------------------------------------------
\* The frame of a run (checked under Spec)

\* the row a run record says it saved
NewRowOf(r) ==
    NewSummary(r.result.summary_id, r.team_id, r.date, r.parsed_data, r.notes)

\* run i gets its answer in this step
Answers(i) == run[i].pc # "responded" /\ run'[i].pc = "responded"

\* C21 (frame of a run): no step of a run deletes or changes a stored summary
\* or a note; a run that ends in no_data or in a raised failure leaves the
\* store as it was, and a run that ends in success changes it only by adding
\* its one new record.
C21_Frame ==
    [][/\ standup_notes' = standup_notes
       /\ standup_summaries \subseteq standup_summaries'
       /\ \A i \in Runs :
            /\ (Answers(i) /\ run'[i].outcome \in {"no_data", "raised"}) =>
                  standup_summaries' = standup_summaries
            /\ (Answers(i) /\ run'[i].outcome = "success") =>
                  /\ NewRowOf(run'[i]) \notin standup_summaries
                  /\ standup_summaries' = standup_summaries \cup {NewRowOf(run'[i])}
       /\ standup_summaries' # standup_summaries =>
            \E i \in Runs : Answers(i) /\ run'[i].outcome = "success"]_vars

\* one run added its record and another failed at the Gateway: the store
\* holds the one record
C21_Witness ==
    \E i, j \in Runs :
        /\ Succeeded(i)
        /\ GatewayFailed(j) /\ Responded(j)
        /\ standup_summaries = {NewRowOf(run[i])}

----------------------------------------------------------------------------
\* The fence split (checked under ParserSpec)

\* positions (from 1) of the JSON fence openers and of the fence markers
OpenerAt(content) == {k \in 1..Len(content) : content[k] = FenceJson}
FenceAt(content) == {k \in 1..Len(content) : content[k] \in {Fence, FenceJson}}

\* the fence markers after the first opener
ClosersAt(content) == {k \in FenceAt(content) : k > MinOf(OpenerAt(content))}

\* the text before the first opener
BeforeOpener(content) == SubSeq(content, 1, MinOf(OpenerAt(content)) - 1)

\* the text between the first opener and the next fence marker
BetweenFences(content) ==
    SubSeq(content, MinOf(OpenerAt(content)) + 1, MinOf(ClosersAt(content)) - 1)

\* the opener is in the completion and a fence marker follows it
HasClosedFence(content) == OpenerAt(content) # {} /\ ClosersAt(content) # {}

\* the structured fields are those the candidate gives: defaults where it
\* does not decode, and the value of each valid key where it is an object
FieldsFrom(candidate, out) ==
    LET decoded == json_loads(candidate)
    IN  \A key \in StructuredKeys :
           /\ ~decoded.ok => out[FieldOf(key)] = DefaultField(FieldOf(key))
           /\ (decoded.ok /\ decoded.type = "dict" /\ key \in DOMAIN decoded.members
                 /\ ValidValue(key, decoded.members[key])) =>
                 out[FieldOf(key)] = FieldValue(key, decoded.members[key])
           /\ (decoded.ok /\ decoded.type = "dict" /\ key \notin DOMAIN decoded.members) =>
                 out[FieldOf(key)] = DefaultField(FieldOf(key))

\* the completion cut after the fence marker that closes the first fence
UpToCloser(content) == SubSeq(content, 1, MinOf(ClosersAt(content)))

\* the split of a completion without the opener
NoOpenerSplit ==
    (p_pc # "ready" /\ OpenerAt(InputContent) = {}) =>
        /\ p_pc = "returned"
        /\ p_out.summary_text = InputContent
        /\ \A key \in StructuredKeys :
              p_out[FieldOf(key)] = DefaultField(FieldOf(key))

\* the candidate of a completion with a closed fence
ClosedFenceCandidate ==
    (p_pc # "ready" /\ HasClosedFence(InputContent)) =>
        LET cut == _parse_llm_response([content |-> UpToCloser(InputContent)])
        IN  /\ (p_pc = "raised") = cut.raised
            /\ p_pc = "returned" =>
                  /\ p_out = cut.value
                  /\ FieldsFrom(BetweenFences(InputContent), p_out)

\* C23 as stated: with the opener in the completion the narrative is exactly
\* the text before its first occurrence and the candidate exactly the text
\* between it and the next fence marker, the text after that marker belonging
\* to neither; without the opener the whole completion is the narrative and
\* the structured fields are the defaults.
C23_FenceSplitExact ==
    /\ NoOpenerSplit
    /\ ClosedFenceCandidate
    /\ (p_pc = "returned" /\ HasClosedFence(InputContent)) =>
          p_out.summary_text = BeforeOpener(InputContent)

\* C23 (amended): as stated, except that the narrative is the text before the
\* first opener with the whitespace at its two ends removed.
C23_FenceSplit ==
    /\ NoOpenerSplit
    /\ ClosedFenceCandidate
    /\ (p_pc = "returned" /\ HasClosedFence(InputContent)) =>
          p_out.summary_text = Strip(BeforeOpener(InputContent))

\* a narrative, a closed fence with an object, and prose after the fence
C23_Witness ==
    /\ p_pc = "returned"
    /\ HasClosedFence(InputContent)
    /\ BeforeOpener(InputContent) # <<>>
    /\ MinOf(ClosersAt(InputContent)) < Len(InputContent)
    /\ p_out.action_items = "[item]"

----------------------------------------------------------------------------
\* Omitted sections (checked under ParserSpec)

\* the list of the parsed summary each of the three sections is stored in
ListOf(marker) ==
    CASE marker = "COMPLETED YESTERDAY" -> "completed_yesterday"
      [] marker = "PLANNED TODAY" -> "planned_today"
      [] OTHER -> "blockers"

\* the header lines before line k
HeadersBefore(lines, k) ==
    {j \in 1..(k - 1) : \E m \in Markers : IsHeaderLine(lines[j], m)}

\* line k stands under the header of section marker: that header is the one
\* that most closely precedes it
StandsUnder(lines, k, marker) ==
    /\ HeadersBefore(lines, k) # {}
    /\ IsHeaderLine(lines[MaxOf(HeadersBefore(lines, k))], marker)

\* the lines that stand under the header of a section, in line order
RECURSIVE LinesUnder(_, _, _)
LinesUnder(lines, k, marker) ==
    IF k > Len(lines) THEN <<>>
    ELSE (IF StandsUnder(lines, k, marker) THEN <<lines[k]>> ELSE <<>>)
         \o LinesUnder(lines, k + 1, marker)

\* a section marker occurs in the narrative only in its header line
MarkersOnlyInHeaders(lines) ==
    \A k \in 1..Len(lines) :
        (\E n \in 1..Len(lines[k]) : lines[k][n] \in Markers) =>
            \E m \in Markers : IsHeaderLine(lines[k], m)

\* C24 (omitted section): a section whose header marker does not occur in the
\* narrative has an empty list, and each bullet line is in at most one of
\* completed_yesterday, planned_today and blockers: in the list of the
\* section whose header most closely precedes it.
C24_OmittedSection ==
    LET text == SummaryTextOf(InputContent)
        lines == SplitLines(text)
    IN  (p_pc = "returned" /\ HeadersInOrder(lines) /\ MarkersOnlyInHeaders(lines)) =>
           \A m \in Markers \ {"NOTES"} :
              /\ Find(text, m, 0) = -1 => p_out[ListOf(m)] = <<>>
              /\ p_out[ListOf(m)] = BulletsOf(LinesUnder(lines, 1, m))

----------------------------------------------------------------------------
\* The unclosed fence (checked under ParserSpec)

\* the text after the first opener, to the end of the completion
AfterOpener(content) ==
    SubSeq(content, MinOf(OpenerAt(content)) + 1, Len(content))

\* C25 (unclosed fence): with the opener in the completion and no fence
\* marker after it, the candidate is all of the completion after the opener:
\* a complete JSON object that runs to the end of the completion is decoded
\* and its fields are used, not the defaults.
C25_UnclosedFence ==
    (/\ p_pc # "ready"
     /\ OpenerAt(InputContent) # {} /\ ClosersAt(InputContent) = {}
     /\ json_loads(AfterOpener(InputContent)).ok
     /\ json_loads(AfterOpener(InputContent)).type = "dict") =>
        /\ p_pc = "returned"
        /\ FieldsFrom(AfterOpener(InputContent), p_out)

----------------------------------------------------------------------------
\* Lookup of a team's summary by date (checked under Spec)

\* the rows result holds for select(StandupSummary).where(team_id, date)
SummariesOf(team_id, date) ==
    {s \in standup_summaries : s.team_id = team_id /\ s.date = date}

\* GET /team/{team_id}/date/{date}: scalar_one_or_none gives None for no
\* row, the row when there is one, and raises MultipleResultsFound otherwise;
\* the handler catches nothing, so the exception is answered with status 500
get_team_standup_by_date(team_id, date) ==
    LET rows == SummariesOf(team_id, date) IN
    IF rows = {} THEN [status |-> 404, standup |-> "none", error |-> "none"]
    ELSE IF Cardinality(rows) = 1
         THEN [status |-> 200, standup |-> CHOOSE s \in rows : TRUE, error |-> "none"]
         ELSE [status |-> 500, standup |-> "none", error |-> "MultipleResultsFound"]

\* C26 (lookup after duplicates): after any sequence of runs the lookup of a
\* (team, date) returns a stored summary of that pair whenever at least one
\* exists, also when two runs stored two, and answers not-found only when
\* none exists.
C26_LookupAfterDuplicates ==
    \A t \in Teams, d \in Dates :
        LET answer == get_team_standup_by_date(t, d) IN
        /\ SummariesOf(t, d) # {} =>
              (answer.status = 200 /\ answer.standup \in SummariesOf(t, d))
        /\ SummariesOf(t, d) = {} => answer.status = 404

\* the lookup is right as long as no pair has two summaries
C26_LookupWithoutDuplicates ==
    (\A t \in Teams, d \in Dates : Cardinality(SummariesOf(t, d)) <= 1) =>
        C26_LookupAfterDuplicates

----------------------------------------------------------------------------
\* StandupService (services/standup_service.py) behind POST /generate
\* (api/v1/router.py)

\* the integration columns of table teams (None is "none")
TeamIntegrations ==
    [id \in Teams |->
        [jira_project_key |-> IF id = 2 THEN "MOB" ELSE "none",
         slack_channel_id |-> "none"]]

\* the parameters a callable declares and the ones a call must give
Signature(params, required) == [params |-> params, required |-> required]
JiraClient_init == Signature({"config", "credentials", "db"}, {"config"})
SlackClient_init == Signature({"config", "credentials", "db"}, {"config"})
StandupAgent_init == Signature({}, {})
StandupAgent_execute ==
    Signature({"team_id", "target_date", "db_session"}, {"team_id"})

\* Python binds keyword arguments by name: a call with a name the callable
\* does not declare, or without a required one, raises TypeError
Binds(signature, keywords) ==
    /\ keywords \subseteq signature.params
    /\ signature.required \subseteq keywords

\* the keys of the dict execute returns
AgentResultKeys(has_notes) ==
    IF has_notes
    THEN {"success", "summary_id", "date", "team_id", "summary_text",
          "completed_yesterday", "planned_today", "blockers", "action_items",
          "risk_indicators", "generated_at", "tokens_used", "cost_usd"}
    ELSE {"success", "error", "date", "team_id"}

\* the exception the body of generate_standup_summary raises, "none" if it
\* reaches self.db.add
ServiceError(team_id, date) ==
    IF team_id \notin DOMAIN TeamsTable THEN "ValueError: Team not found"
    ELSE IF /\ TeamIntegrations[team_id].jira_project_key # "none"
            /\ ~Binds(JiraClient_init, {"team"})
         THEN "TypeError: JiraClient.__init__() got an unexpected keyword argument team"
    ELSE IF /\ TeamIntegrations[team_id].slack_channel_id # "none"
            /\ ~Binds(SlackClient_init, {"team"})
         THEN "TypeError: SlackClient.__init__() got an unexpected keyword argument team"
    ELSE IF ~Binds(StandupAgent_init, {"ai_engine", "jira_client", "slack_client"})
         THEN "TypeError: StandupAgent.__init__() got an unexpected keyword argument ai_engine"
    ELSE IF ~Binds(StandupAgent_execute, {"team_id", "sprint_id", "date"})
         THEN "TypeError: StandupAgent.execute() got an unexpected keyword argument sprint_id"
    ELSE IF "summary" \notin
              AgentResultKeys(_fetch_standup_notes(standup_notes, team_id, date) # <<>>)
         THEN "KeyError: summary"
    ELSE "none"

\* the record generate_standup_summary builds from the agent's result
ServiceSummary(id, team_id, sprint_id, date, creator_id) ==
    [id |-> id, date |-> date, team_id |-> team_id, sprint_id |-> sprint_id,
     creator_id |-> creator_id, summary_text |-> <<"summary">>,
     completed_yesterday |-> <<>>, planned_today |-> <<>>, blockers |-> <<>>,
     absent_members |-> <<>>, ai_generated |-> TRUE, sentiment_score |-> 5,
     risk_indicators |-> <<>>, action_items |-> <<>>,
     posted_to_slack |-> FALSE, human_approved |-> FALSE]

\* StandupService.generate_standup_summary(team_id, sprint_id, date, creator_id)
GenerateStandupSummary(team_id, sprint_id, date, creator_id) ==
    /\ service_call.pc = "idle"
    /\ LET error == ServiceError(team_id, date)
           call == [service_call EXCEPT !.team_id = team_id, !.sprint_id = sprint_id,
                                        !.date = date]
       IN  IF error = "none"
           THEN /\ standup_summaries' =
                     InsertSummary(standup_summaries,
                         ServiceSummary(next_id, team_id, sprint_id, date, creator_id))
                /\ next_id' = next_id + 1
                /\ service_call' = [call EXCEPT !.pc = "returned", !.outcome = "returned"]
           ELSE /\ service_call' = [call EXCEPT !.pc = "raised", !.outcome = "raised",
                                                !.error = error, !.rolled_back = TRUE]
                /\ UNCHANGED <<standup_summaries, next_id>>
    /\ UNCHANGED <<backend, env, standup_notes, run, pvars, sprints, sprint_call, request>>

\* the handler of POST /generate answers: the record, or HTTP 500 for any
\* exception out of the service
RespondGenerate ==
    /\ service_call.pc \in {"returned", "raised"}
    /\ service_call' = [service_call EXCEPT
           !.pc = "responded",
           !.http = IF service_call.outcome = "returned" THEN 200 ELSE 500]
    /\ UNCHANGED <<backend, env, standup_notes, standup_summaries, next_id, run, pvars,
                   sprints, sprint_call, request>>

SprintIds == {0} \cup DOMAIN SprintsTable
ServiceTeamIds == Teams \cup {3}

ServiceNext ==
    \/ \E team_id \in ServiceTeamIds, sprint_id \in SprintIds, date \in Dates,
          creator_id \in DOMAIN UsersTable :
            GenerateStandupSummary(team_id, sprint_id, date, creator_id)
    \/ RespondGenerate

ServiceSpec == Init /\ [][ServiceNext]_vars

\* the call was made for an existing team that has notes for the date, with
\* a backend that answers
ServiceCallCanSucceed ==
    /\ service_call.pc # "idle"
    /\ service_call.team_id \in DOMAIN TeamsTable
    /\ _fetch_standup_notes(standup_notes, service_call.team_id, service_call.date) # <<>>
    /\ backend = "up"

\* C27 (StandupService.generate_standup_summary): a call for an existing team
\* with notes for the date and a working backend returns and leaves exactly
\* one summary, ai_generated and not human_approved, for the team and date;
\* a call that fails raises after a rollback and leaves no summary.
C27_ServiceGenerates ==
    /\ ServiceCallCanSucceed =>
          /\ service_call.outcome = "returned"
          /\ Cardinality(standup_summaries) = 1
          /\ \A s \in standup_summaries :
                /\ s.team_id = service_call.team_id /\ s.date = service_call.date
                /\ s.ai_generated /\ ~s.human_approved
    /\ service_call.outcome = "raised" =>
          /\ service_call.rolled_back
          /\ standup_summaries = {}

\* the failure half alone: a call that raises rolled back and stored nothing
C27_FailureHalf ==
    service_call.outcome = "raised" =>
        (service_call.rolled_back /\ standup_summaries = {})

----------------------------------------------------------------------------
\* SprintService (services/sprint_service.py)

MaxSprints == 2      \* rows the sprint table may hold
MaxDay == 4          \* dates are days 0..MaxDay and one day beyond the limit
Today == 1           \* date.today(); day 0 is in the past
MaxSprintDays == 30  \* "Sprint duration cannot exceed 30 days"

SprintDays == (0..MaxDay) \cup {Today + MaxSprintDays + 1}
SprintStatus == {"planning", "active", "completed", "cancelled"}
SprintTeamIds == Teams \cup {3}

SprintRow(id, team_id, start_date, end_date, status) ==
    [id |-> id, team_id |-> team_id, start_date |-> start_date,
     end_date |-> end_date, status |-> status]

\* _validate_sprint_dates: the message of the SprintValidationError, or "none"
_validate_sprint_dates(start_date, end_date) ==
    IF start_date >= end_date THEN "Start date must be before end date"
    ELSE IF start_date < Today THEN "Start date cannot be in the past"
    ELSE IF end_date - start_date > MaxSprintDays
         THEN "Sprint duration cannot exceed 30 days"
    ELSE "none"

\* _validate_team_exists
_validate_team_exists(team_id) ==
    IF team_id \in DOMAIN TeamsTable THEN "none" ELSE "Team not found"

\* the rows the statement of _validate_no_overlapping_sprints selects
OverlapQuery(table, team_id, start_date, end_date) ==
    {sp \in table :
        /\ sp.team_id = team_id
        /\ sp.status \in {"planning", "active"}
        /\ \/ (sp.start_date <= start_date /\ sp.end_date > start_date)
           \/ (sp.start_date < end_date /\ sp.end_date >= end_date)}

\* _validate_no_overlapping_sprints: scalar_one_or_none gives None for no
\* row, the row for one, and raises MultipleResultsFound for more
_validate_no_overlapping_sprints(table, team_id, start_date, end_date) ==
    LET existing == OverlapQuery(table, team_id, start_date, end_date) IN
    IF existing = {} THEN [class |-> "none", message |-> "none"]
    ELSE IF Cardinality(existing) = 1
         THEN [class |-> "SprintValidationError",
               message |-> "Overlapping sprint exists"]
         ELSE [class |-> "SprintServiceError",
               message |-> "Sprint creation failed: MultipleResultsFound"]

\* the exception create_sprint ends in: the validations in their order
CreateSprintError(table, team_id, start_date, end_date) ==
    IF _validate_sprint_dates(start_date, end_date) # "none"
    THEN [class |-> "SprintValidationError",
          message |-> _validate_sprint_dates(start_date, end_date)]
    ELSE IF _validate_team_exists(team_id) # "none"
    THEN [class |-> "SprintValidationError",
          message |-> _validate_team_exists(team_id)]
    ELSE _validate_no_overlapping_sprints(table, team_id, start_date, end_date)

\* create_sprint(team_id, name, start_date, end_date) without suggested items
CreateSprint(team_id, start_date, end_date) ==
    LET error == CreateSprintError(sprints, team_id, start_date, end_date)
        call == [NoSprintCall EXCEPT !.op = "create_sprint"]
    IN  /\ IF error.class = "none"
           THEN /\ Cardinality(sprints) < MaxSprints
                /\ sprints' = sprints \cup
                       {SprintRow(Cardinality(sprints) + 1, team_id, start_date,
                                  end_date, "planning")}
                /\ sprint_call' = [call EXCEPT !.outcome = "returned",
                                               !.sprint_id = Cardinality(sprints) + 1,
                                               !.status = "planning"]
           ELSE /\ sprints' = sprints
                /\ sprint_call' = [call EXCEPT !.outcome = "raised",
                                               !.error = error.class]
        /\ UNCHANGED <<rvars, pvars, service_call, request>>

\* the variant that lets every requested change through
_is_valid_status_transition_Any(current, new) == TRUE

\* _is_valid_status_transition
_is_valid_status_transition(current, new) ==
    LET valid_transitions ==
            [c \in SprintStatus |->
                CASE c = "planning" -> {"active", "cancelled"}
                  [] c = "active" -> {"completed", "cancelled"}
                  [] c = "completed" -> {}
                  [] c = "cancelled" -> {"planning"}]
    IN  new \in valid_transitions[current]

\* update_sprint_status(sprint_id, status)
UpdateSprintStatus(sprint_id, status) ==
    LET found == {sp \in sprints : sp.id = sprint_id}
        call == [NoSprintCall EXCEPT !.op = "update_sprint_status",
                                     !.sprint_id = sprint_id, !.status = status]
    IN  /\ IF found = {}
           THEN /\ sprints' = sprints
                /\ sprint_call' = [call EXCEPT !.outcome = "raised",
                                               !.error = "SprintNotFoundError"]
           ELSE LET sprint == CHOOSE sp \in found : TRUE IN
                IF ~_is_valid_status_transition(sprint.status, status)
                THEN /\ sprints' = sprints
                     /\ sprint_call' = [call EXCEPT
                            !.outcome = "raised",
                            !.error = "InvalidStatusTransitionError"]
                ELSE /\ sprints' = (sprints \ {sprint}) \cup
                            {[sprint EXCEPT !.status = status]}
                     /\ sprint_call' = [call EXCEPT !.outcome = "returned"]
        /\ UNCHANGED <<rvars, pvars, service_call, request>>

SprintInit ==
    /\ backend = "up"
    /\ env = [USE_OLLAMA |-> "true", api_key |-> "other"]
    /\ standup_notes = {}
    /\ standup_summaries = {}
    /\ next_id = 1
    /\ run = <<>>
    /\ p_pc = "off"
    /\ p_input = NoResponse
    /\ p_out = NoParsedData
    /\ ServicesIdle

SprintNext ==
    \/ \E team_id \in SprintTeamIds, start_date \in SprintDays, end_date \in SprintDays :
          CreateSprint(team_id, start_date, end_date)
    \/ \E sprint_id \in 1..(MaxSprints + 1), status \in SprintStatus :
          UpdateSprintStatus(sprint_id, status)

SprintSpec == SprintInit /\ [][SprintNext]_vars

----------------------------------------------------------------------------
\* Sprint ranges and sprint statuses (checked under SprintSpec)

\* a sprint that counts for the overlap rule
Live(sp) == sp.status \in {"planning", "active"}

\* two date ranges overlap: they share more than a boundary day (partial
\* overlap, or one contains the other)
RangesOverlap(s1, e1, s2, e2) == s1 < e2 /\ s2 < e1

\* no team has two live sprints with overlapping ranges
NoOverlappingSprints ==
    \A a, b \in sprints :
        (a.id # b.id /\ a.team_id = b.team_id /\ Live(a) /\ Live(b)) =>
            ~RangesOverlap(a.start_date, a.end_date, b.start_date, b.end_date)

\* a request create_sprint's other validations let through
ValidRequest(team_id, start_date, end_date) ==
    /\ _validate_sprint_dates(start_date, end_date) = "none"
    /\ _validate_team_exists(team_id) = "none"

\* the request's range overlaps a live sprint of the team
OverlapsLive(team_id, start_date, end_date) ==
    \E sp \in sprints :
        /\ sp.team_id = team_id /\ Live(sp)
        /\ RangesOverlap(sp.start_date, sp.end_date, start_date, end_date)

\* C28 (no overlapping sprints): after any sequence of create_sprint and
\* update_sprint_status calls no team has two sprints in PLANNING or ACTIVE
\* status whose date ranges overlap, and create_sprint answers every request
\* whose range overlaps such a sprint with SprintValidationError.
C28_NoOverlappingSprints ==
    /\ NoOverlappingSprints
    /\ \A team_id \in SprintTeamIds, start_date \in SprintDays, end_date \in SprintDays :
          (ValidRequest(team_id, start_date, end_date)
             /\ OverlapsLive(team_id, start_date, end_date)) =>
            CreateSprintError(sprints, team_id, start_date, end_date).class
                = "SprintValidationError"

\* what the overlap check does catch: a request that starts inside a live
\* sprint, or ends inside one, is never accepted
C28_PartialOverlapRejected ==
    \A team_id \in SprintTeamIds, start_date \in SprintDays, end_date \in SprintDays :
        (\E sp \in sprints :
            /\ sp.team_id = team_id /\ Live(sp)
            /\ \/ (sp.start_date <= start_date /\ start_date < sp.end_date)
               \/ (sp.start_date < end_date /\ end_date <= sp.end_date)) =>
          CreateSprintError(sprints, team_id, start_date, end_date).class # "none"

\* the status changes the rule allows
AllowedChanges ==
    {<<"planning", "active">>, <<"planning", "cancelled">>,
     <<"active", "completed">>, <<"active", "cancelled">>,
     <<"cancelled", "planning">>}

\* the step is a call of update_sprint_status on a sprint the table holds
UpdatesSprint(sp) ==
    /\ <<sprints, sprint_call>>' # <<sprints, sprint_call>>
    /\ sprint_call'.op = "update_sprint_status"
    /\ sprint_call'.sprint_id = sp.id

\* C29 (sprint status machine): a sprint's status changes only in a call of
\* update_sprint_status, only along PLANNING to ACTIVE, PLANNING to
\* CANCELLED, ACTIVE to COMPLETED, ACTIVE to CANCELLED and CANCELLED to
\* PLANNING, and to the requested status; every other requested change
\* raises InvalidStatusTransitionError and leaves the table as it was; a
\* COMPLETED sprint stays COMPLETED.
C29_StatusMachine ==
    [][\A sp \in sprints :
         /\ \E after \in sprints' :
               /\ after.id = sp.id
               /\ [after EXCEPT !.status = sp.status] = sp
               /\ after.status # sp.status =>
                     /\ <<sp.status, after.status>> \in AllowedChanges
                     /\ UpdatesSprint(sp)
                     /\ sprint_call'.status = after.status
                     /\ sprint_call'.outcome = "returned"
               /\ sp.status = "completed" => after.status = "completed"
         /\ UpdatesSprint(sp) =>
               IF <<sp.status, sprint_call'.status>> \in AllowedChanges
               THEN /\ sprint_call'.outcome = "returned"
                    /\ [sp EXCEPT !.status = sprint_call'.status] \in sprints'
               ELSE /\ sprint_call'.error = "InvalidStatusTransitionError"
                    /\ sprints' = sprints]_vars

\* a sprint went PLANNING, ACTIVE, COMPLETED and a later request to change
\* it was refused
C29_Witness ==
    \E sp \in sprints :
        /\ sp.status = "completed"
        /\ sprint_call.op = "update_sprint_status"
        /\ sprint_call.sprint_id = sp.id
        /\ sprint_call.error = "InvalidStatusTransitionError"

----------------------------------------------------------------------------
\* BaseIntegration._make_request (integrations/base.py)

MaxRetryAttempts == 2   \* config.retry_attempts is drawn from 0..MaxRetryAttempts

\* what one client.request can come back with: a response with a status
\* code, or an exception of httpx
StatusCodes == {200, 204, 302, 400, 401, 403, 404, 429, 500, 503}
TransportFailures == {"TimeoutException", "NetworkError", "ProtocolError"}
RequestOutcomes ==
    {[kind |-> "response", status_code |-> c] : c \in StatusCodes}
        \cup {[kind |-> f, status_code |-> 0] : f \in TransportFailures}

\* response.is_success
is_success(status_code) == 200 <= status_code /\ status_code <= 299

\* how the instance stands when _make_request is entered
Gates ==
    {"can_make_request", "credentials_expired", "refresh_fails",
     "rate_limit_exceeded", "not_connected"}

\* _make_request up to the loop: expired credentials are refreshed, an
\* exceeded rate limit raises, every other instance goes on to the loop
MakeRequest(gate) ==
    /\ request.pc = "idle"
    /\ request' =
          CASE gate = "rate_limit_exceeded" ->
                 [request EXCEPT !.pc = "raised", !.outcome = "raised",
                                 !.error = "RateLimitError"]
            [] gate = "refresh_fails" ->
                 [request EXCEPT !.pc = "raised", !.outcome = "raised",
                                 !.error = "refresh_credentials"]
            [] OTHER -> [request EXCEPT !.pc = "sending"]
    /\ UNCHANGED <<rvars, pvars, sprints, sprint_call, service_call>>

\* the branch of the loop body that gives up or goes round again
RetryOr(req, error) ==
    IF req.attempt < req.retry_attempts
    THEN [req EXCEPT !.attempt = @ + 1]
    ELSE [req EXCEPT !.pc = "raised", !.outcome = "raised", !.error = error]

\* one pass of the loop: one HTTP request and the handling of its outcome
SendRequest(outcome) ==
    /\ request.pc = "sending"
    /\ LET req == [request EXCEPT !.sent = Append(@, outcome)]
           Raise(error) ==
               [req EXCEPT !.pc = "raised", !.outcome = "raised", !.error = error]
       IN  request' =
             IF outcome.kind = "TimeoutException" THEN RetryOr(req, "NetworkError")
             ELSE IF outcome.kind = "NetworkError" THEN RetryOr(req, "NetworkError")
             ELSE IF outcome.kind # "response" THEN Raise(outcome.kind)
             ELSE IF is_success(outcome.status_code)
                  THEN [req EXCEPT !.pc = "returned", !.outcome = "returned"]
             ELSE IF outcome.status_code = 401 THEN Raise("AuthenticationError")
             ELSE IF outcome.status_code = 403 THEN Raise("AuthorizationError")
             ELSE IF outcome.status_code = 429 THEN Raise("RateLimitError")
             ELSE IF 400 <= outcome.status_code /\ outcome.status_code < 500
                  THEN Raise("ValidationError")
             ELSE RetryOr(req, "IntegrationError")
    /\ UNCHANGED <<rvars, pvars, sprints, sprint_call, service_call>>

IntegrationInit ==
    /\ backend = "up"
    /\ env = [USE_OLLAMA |-> "true", api_key |-> "other"]
    /\ standup_notes = {}
    /\ standup_summaries = {}
    /\ next_id = 1
    /\ run = <<>>
    /\ p_pc = "off"
    /\ p_input = NoResponse
    /\ p_out = NoParsedData
    /\ sprints = {}
    /\ sprint_call = NoSprintCall
    /\ service_call = NoServiceCall
    /\ request \in {[NoRequest EXCEPT !.retry_attempts = n] : n \in 0..MaxRetryAttempts}

IntegrationNext ==
    \/ \E gate \in Gates : MakeRequest(gate)
    \/ \E outcome \in RequestOutcomes : SendRequest(outcome)

IntegrationSpec == IntegrationInit /\ [][IntegrationNext]_vars

\* the loop is resumed after every response and after every sleep
FairIntegrationSpec ==
    IntegrationSpec /\ WF_vars(\E outcome \in RequestOutcomes : SendRequest(outcome))

----------------------------------------------------------------------------
\* Bounded retry (checked under IntegrationSpec)

\* the outcomes after which the claim lets another request be sent
ServerError(outcome) ==
    outcome.kind = "response" /\ 500 <= outcome.status_code /\ outcome.status_code <= 599
MayRetryAfter(outcome) ==
    ServerError(outcome) \/ outcome.kind \in {"TimeoutException", "NetworkError"}

\* a success response, and a 4xx response
SuccessResponse(outcome) == outcome.kind = "response" /\ is_success(outcome.status_code)
ClientError(outcome) ==
    outcome.kind = "response" /\ 400 <= outcome.status_code /\ outcome.status_code <= 499
Redirect(outcome) ==
    outcome.kind = "response" /\ 300 <= outcome.status_code /\ outcome.status_code <= 399

\* a call that returned returned on a success response, and a success or a
\* 4xx response is the last request of its call
EndsOnFirstAnswer ==
    /\ request.pc = "returned" =>
          (request.sent # <<>> /\ SuccessResponse(request.sent[Len(request.sent)]))
    /\ \A k \in 1..Len(request.sent) :
          (SuccessResponse(request.sent[k]) \/ ClientError(request.sent[k])) =>
            /\ k = Len(request.sent)
            /\ request.pc = (IF SuccessResponse(request.sent[k])
                             THEN "returned" ELSE "raised")

\* C30 (bounded retry): one _make_request call sends at most
\* retry_attempts + 1 requests; every request that was followed by another
\* ended in a 5xx response, a timeout or a network error; the call returns
\* on the first success response and raises on the first 4xx response
\* without a further request.
C30_BoundedRetry ==
    /\ Len(request.sent) <= request.retry_attempts + 1
    /\ \A k \in 1..(Len(request.sent) - 1) : MayRetryAfter(request.sent[k])
    /\ EndsOnFirstAnswer

\* the bound on the number of requests alone
C30_AtMostRetryAttemptsPlusOne ==
    Len(request.sent) <= request.retry_attempts + 1

\* the same with a redirect (3xx) response counted among the outcomes
\* another request may follow
C30_WithRedirectsRetried ==
    /\ Len(request.sent) <= request.retry_attempts + 1
    /\ \A k \in 1..(Len(request.sent) - 1) :
          MayRetryAfter(request.sent[k]) \/ Redirect(request.sent[k])
    /\ EndsOnFirstAnswer

\* every call ends by returning or raising
C30_CallEnds ==
    (request.pc = "sending") ~> (request.pc \in {"returned", "raised"})

============================================================================
